---- MODULE Spec2Model ----
(***************************************************************************)
(* Brainfuck JIT compiler for x86-64 (src/main.cpp).                       *)
(*                                                                         *)
(* The model follows the program from main() to the exit of the process:   *)
(* read_file, process_input, Compiler::compile_program (folding, blocks,   *)
(* validate_loops), JitCompiler::compile (setup, generate_emitters,        *)
(* emit_jumps, cleanup, concatenation, mmap, memcpy) and the execution of  *)
(* the generated byte image, one x86-64 instruction per step, by a decoder *)
(* of the opcode subset the emitter produces.  A reference Brainfuck       *)
(* interpreter is stepped beside the generated code as the yardstick of    *)
(* the equivalence property.                                               *)
(***************************************************************************)
EXTENDS Integers, Sequences, FiniteSets, TLC

(***************************************************************************)
(* Bounds of the model.                                                    *)
(***************************************************************************)
MaxLen == 3          \* every source text of at most MaxLen instruction bytes
MaxPlus == 257       \* runs of '+' of every length up to MaxPlus
MaxRun == 4          \* k '+' then j '-' (and '>' / '<') for k, j <= MaxRun
MaxIn == 2           \* bytes waiting on standard input
MaxOut == 3          \* bytes of output that are recorded
TapeLen == 3         \* cells of the tape (new char[50000] in the program)
TapeBase == 1000     \* address of the first tape cell
CodeBase == 5000     \* address mmap returns on success
MaxCount == 2        \* counts of the single IR nodes run in isolation
MaxLag == 2000       \* steps one side may still take after the other stopped

(***************************************************************************)
(* Program constants.                                                      *)
(***************************************************************************)
RAX == 0
RCX == 1
RDX == 2
RBX == 3
RSI == 6
RDI == 7
AL == 0
MAP_FAILED == -1

Chars == {"+", "-", ">", "<", "[", "]", ".", ","}
InBytes == {0, 255}
RegIds == {RAX, RCX, RDX, RBX, RSI, RDI}

\* n copies of c
Rep(c, n) == [i \in 1..n |-> c]

RECURSIVE SumLen(_)
SumLen(bufs) == IF bufs = <<>> THEN 0 ELSE Len(Head(bufs)) + SumLen(Tail(bufs))

RECURSIVE Flatten(_)
Flatten(seqs) == IF seqs = <<>> THEN <<>> ELSE Head(seqs) \o Flatten(Tail(seqs))

(***************************************************************************)
(* IR: Instruction, Block, Program (lines 14-99).                          *)
(***************************************************************************)
AddInsn(val)   == [type |-> "Add",     value |-> val]
SubInsn(val)   == [type |-> "Sub",     value |-> val]
RightInsn(val) == [type |-> "Right",   value |-> val]
LeftInsn(val)  == [type |-> "Left",    value |-> val]
LoopInsn       == [type |-> "Loop",    value |-> 0]
EndLoopInsn    == [type |-> "EndLoop", value |-> 0]
WriteInsn      == [type |-> "Write",   value |-> 0]
ReadInsn       == [type |-> "Read",    value |-> 0]

\* Program::append_new_block
append_new_block(blocks) == Append(blocks, <<>>)

\* Program::append_insn: the instruction goes to the last block
append_insn(blocks, insn) ==
    [blocks EXCEPT ![Len(blocks)] = Append(blocks[Len(blocks)], insn)]

(***************************************************************************)
(* Compiler::compile_program (lines 352-456).  Positions are 0-based as in *)
(* the source; code[pos] of the source is code[pos + 1] here.              *)
(***************************************************************************)
is_add_or_sub_plus_only(code, pos) == pos < Len(code) /\ code[pos + 1] = "+"

is_add_or_sub(code, pos) ==
    pos < Len(code) /\ (code[pos + 1] = "-" \/ code[pos + 1] = "+")

is_shift(code, pos) ==
    pos < Len(code) /\ (code[pos + 1] = "<" \/ code[pos + 1] = ">")

\* the position at which the run of '+' / '-' that starts at i ends: the
\* first position from i on that is_add_or_sub rejects
add_sub_run_end(code, i) ==
    CHOOSE e \in i..Len(code) :
        /\ ~is_add_or_sub(code, e)
        /\ \A p \in i..(e - 1) : is_add_or_sub(code, p)

\* the same for a run of '<' / '>' and is_shift
shift_run_end(code, i) ==
    CHOOSE e \in i..Len(code) :
        /\ ~is_shift(code, e)
        /\ \A p \in i..(e - 1) : is_shift(code, p)

\* how many positions of i .. e - 1 hold the byte c
count_of(code, i, e, c) == Cardinality({p \in i..(e - 1) : code[p + 1] = c})

\* the while loop of lines 358-365: the position after the run and its
\* total, one up for each '+' and one down for each '-'
fold_add_sub(code, i) ==
    LET e == add_sub_run_end(code, i)
    IN  [i |-> e, total |-> count_of(code, i, e, "+") - count_of(code, i, e, "-")]

\* the while loop of lines 382-389
fold_shift(code, i) ==
    LET e == shift_run_end(code, i)
    IN  [i |-> e, total |-> count_of(code, i, e, ">") - count_of(code, i, e, "<")]

\* the for loop of lines 355-424, from position i with the blocks built so far
RECURSIVE compile_loop_body(_, _, _)
compile_loop_body(code, i, blocks) ==
    IF i >= Len(code) THEN blocks
    ELSE IF is_add_or_sub(code, i) THEN
        LET r == fold_add_sub(code, i) IN
        compile_loop_body(code, r.i,
            IF r.total = 0 THEN blocks
            ELSE IF r.total > 0 THEN append_insn(blocks, AddInsn(r.total))
            ELSE append_insn(blocks, SubInsn(-r.total)))
    ELSE IF is_shift(code, i) THEN
        LET r == fold_shift(code, i) IN
        compile_loop_body(code, r.i,
            IF r.total = 0 THEN blocks
            ELSE IF r.total > 0 THEN append_insn(blocks, RightInsn(r.total))
            ELSE append_insn(blocks, LeftInsn(-r.total)))
    ELSE IF code[i + 1] = "." THEN
        compile_loop_body(code, i + 1, append_insn(blocks, WriteInsn))
    ELSE IF code[i + 1] = "," THEN
        compile_loop_body(code, i + 1, append_insn(blocks, ReadInsn))
    ELSE IF code[i + 1] = "[" THEN
        compile_loop_body(code, i + 1,
            append_new_block(append_insn(append_new_block(blocks), LoopInsn)))
    ELSE IF code[i + 1] = "]" THEN
        compile_loop_body(code, i + 1,
            append_new_block(append_insn(append_new_block(blocks), EndLoopInsn)))
    ELSE compile_loop_body(code, i + 1, blocks)

\* the Program built before validate_loops is called (lines 353-424)
build_program(code) == compile_loop_body(code, 0, append_new_block(<<>>))

\* validate_loops without the final depth test
RECURSIVE scan_loops_no_final(_, _)
scan_loops_no_final(insns, loop_depth) ==
    IF insns = <<>> THEN "ok"
    ELSE IF Head(insns).type = "Loop" THEN scan_loops_no_final(Tail(insns), loop_depth + 1)
    ELSE IF Head(insns).type = "EndLoop" THEN
        (IF loop_depth - 1 < 0 THEN "unmatched_close"
         ELSE scan_loops_no_final(Tail(insns), loop_depth - 1))
    ELSE scan_loops_no_final(Tail(insns), loop_depth)

\* validate_loops (lines 430-449) over the instructions of all blocks in
\* order: "ok", or the exit(1) it takes
RECURSIVE scan_loops(_, _)
scan_loops(insns, loop_depth) ==
    IF insns = <<>> THEN (IF loop_depth > 0 THEN "unmatched_open" ELSE "ok")
    ELSE IF Head(insns).type = "Loop" THEN scan_loops(Tail(insns), loop_depth + 1)
    ELSE IF Head(insns).type = "EndLoop" THEN
        (IF loop_depth - 1 < 0 THEN "unmatched_close"
         ELSE scan_loops(Tail(insns), loop_depth - 1))
    ELSE scan_loops(Tail(insns), loop_depth)

validate_loops(blocks) == scan_loops(Flatten(blocks), 0)

(***************************************************************************)
(* JIT::Imm8 / Imm32 / Imm64 (lines 127-173): the little-endian bytes of   *)
(* the immediate.  The constructor argument is converted to unsigned char  *)
(* / unsigned int, i.e. reduced modulo 2^8 / 2^32; \div rounds down, so    *)
(* (val \div 256^i) % 256 is byte i of the two's complement of val.        *)
(***************************************************************************)
Imm8_saturating(val) == << IF val > 255 THEN 255 ELSE val % 256 >>

Imm8(val) == << val % 256 >>

Imm32(val) == [i \in 1..4 |-> (val \div (256 ^ (i - 1))) % 256]

\* the value member is an unsigned int: bytes 4..7 are what is left of a
\* 32-bit value after four shifts by 8, i.e. 0
Imm64(val) == [i \in 1..8 |-> IF i <= 4 THEN (val \div (256 ^ (i - 1))) % 256 ELSE 0]

(***************************************************************************)
(* JIT::Emitter (lines 175-289): each method appends these bytes.          *)
(* 0xB8, 0xC0 and 0xE8 have their low three bits clear, so x | reg is      *)
(* x + reg; 0xC0 | src << 3 | dst is 192 + 8 * src + dst.                  *)
(***************************************************************************)
ret == << 195 >>
mov_r64_imm64(dst, src) == << 72, 184 + dst >> \o src
mov_r64_r64_no_rex(dst, src) == << 137, 192 + 8 * src + dst >>
mov_r64_r64(dst, src) == << 72, 137, 192 + 8 * src + dst >>
mov_deref(dst, src) == << 138, 8 * dst + src >>
deref_mov(dst, src) == << 136, 8 * src + dst >>
add_r64_imm32(dst, src) == << 72, 129, 192 + dst >> \o src
sub_r64_imm32(dst, src) == << 72, 129, 232 + dst >> \o src
al_add(src) == << 4 >> \o src
al_sub(src) == << 44 >> \o src
cmp_al(src) == << 60 >> \o src
jz(offset) == << 15, 132 >> \o offset
jnz(offset) == << 15, 133 >> \o offset
syscall == << 15, 5 >>

(***************************************************************************)
(* JIT::Compiler (lines 291-345): the emitter after the call.              *)
(***************************************************************************)
compile_setup(emitter) == emitter \o mov_r64_r64(RCX, RDI)

compile_cleanup(emitter) == emitter \o mov_r64_imm64(RAX, Imm64(0)) \o ret

compile_add(insn, emitter) ==
    emitter \o mov_deref(AL, RCX) \o al_add(Imm8(insn.value)) \o deref_mov(RCX, AL)

compile_sub(insn, emitter) ==
    emitter \o mov_deref(AL, RCX) \o al_sub(Imm8(insn.value)) \o deref_mov(RCX, AL)

compile_right(insn, emitter) == emitter \o add_r64_imm32(RCX, Imm32(insn.value))

compile_left(insn, emitter) == emitter \o sub_r64_imm32(RCX, Imm32(insn.value))

compile_write_no_save(insn, emitter) ==
    emitter \o mov_r64_imm64(RAX, Imm64(1)) \o mov_r64_imm64(RDI, Imm64(1))
            \o mov_r64_r64(RSI, RCX) \o mov_r64_imm64(RDX, Imm64(1))
            \o syscall

compile_write(insn, emitter) ==
    emitter \o mov_r64_imm64(RAX, Imm64(1)) \o mov_r64_imm64(RDI, Imm64(1))
            \o mov_r64_r64(RSI, RCX) \o mov_r64_imm64(RDX, Imm64(1))
            \o mov_r64_r64(RBX, RCX) \o syscall \o mov_r64_r64(RCX, RBX)

compile_read(insn, emitter) ==
    emitter \o mov_r64_imm64(RAX, Imm64(0)) \o mov_r64_imm64(RDI, Imm64(0))
            \o mov_r64_r64(RSI, RCX) \o mov_r64_imm64(RDX, Imm64(1))
            \o mov_r64_r64(RBX, RCX) \o syscall \o mov_r64_r64(RCX, RBX)

compile_loop(offset, emitter) ==
    emitter \o mov_deref(AL, RCX) \o cmp_al(Imm8(0)) \o jz(Imm32(offset))

\* compile_end_loop without the "+ 2" of line 342
compile_end_loop_short(offset, emitter) ==
    LET e == emitter \o mov_deref(AL, RCX) \o cmp_al(Imm8(0))
    IN  e \o jnz(Imm32(-(offset + Len(e))))

\* offset += emitter.length() + 2 is evaluated after mov_deref and cmp_al
\* were appended
compile_end_loop(offset, emitter) ==
    LET e == emitter \o mov_deref(AL, RCX) \o cmp_al(Imm8(0))
    IN  e \o jnz(Imm32(-(offset + Len(e) + 2)))

(***************************************************************************)
(* JitCompiler (lines 458-582).  emitters[k] of the source is              *)
(* emitters[k + 1] here, program.blocks[i] is blocks[i + 1].               *)
(***************************************************************************)
\* the switch of lines 540-579 on emitters.back()
process_instruction(insn, emitter) ==
    CASE insn.type = "Add"   -> compile_add(insn, emitter)
      [] insn.type = "Sub"   -> compile_sub(insn, emitter)
      [] insn.type = "Right" -> compile_right(insn, emitter)
      [] insn.type = "Left"  -> compile_left(insn, emitter)
      [] insn.type = "Read"  -> compile_read(insn, emitter)
      [] insn.type = "Write" -> compile_write(insn, emitter)
      [] OTHER               -> emitter

RECURSIVE emit_block(_, _)
emit_block(insns, emitter) ==
    IF insns = <<>> THEN emitter
    ELSE emit_block(Tail(insns), process_instruction(Head(insns), emitter))

\* setup(): one emitter holding the prologue is pushed
setup(emitters) == Append(emitters, compile_setup(<<>>))

\* cleanup(): one emitter holding the epilogue is pushed
cleanup(emitters) == Append(emitters, compile_cleanup(<<>>))

\* generate_emitters: one emitter per block, after those already there
generate_emitters(blocks, emitters) ==
    emitters \o [b \in 1..Len(blocks) |-> emit_block(blocks[b], <<>>)]

\* the sum of emitters[j + 1].length() for j = from .. to (lines 508-510)
RECURSIVE length_of_range(_, _, _)
length_of_range(emitters, from, to) ==
    IF from > to THEN 0
    ELSE Len(emitters[from + 2]) + length_of_range(emitters, from + 1, to)

\* int emit_jumps(Program&, int position) (lines 499-523): the emitters
\* after the call, the value returned, and whether exit(0) was taken
RECURSIVE emit_jumps_at(_, _, _)
RECURSIVE emit_jumps_scan(_, _, _, _, _)
emit_jumps_scan(blocks, emitters, position, i, length) ==
    IF i >= Len(blocks) THEN [emitters |-> emitters, ret |-> -1, exited |-> TRUE]
    ELSE IF blocks[i + 1] = <<>> THEN
        emit_jumps_scan(blocks, emitters, position, i + 1, length)
    ELSE IF Head(blocks[i + 1]).type = "Loop" THEN
        LET r == emit_jumps_at(blocks, emitters, i) IN
        IF r.exited THEN r
        ELSE emit_jumps_scan(blocks, r.emitters, position, r.ret + 1,
                             length + length_of_range(r.emitters, i, r.ret))
    ELSE IF Head(blocks[i + 1]).type = "EndLoop" THEN
        LET e1 == [emitters EXCEPT
                     ![position + 2] = compile_loop(length, emitters[position + 2])]
            length2 == length + Len(e1[position + 2])
            e2 == [e1 EXCEPT ![i + 2] = compile_end_loop(length2, e1[i + 2])]
        IN  [emitters |-> e2, ret |-> i, exited |-> FALSE]
    ELSE emit_jumps_scan(blocks, emitters, position, i + 1,
                         length + Len(emitters[i + 2]))

emit_jumps_at(blocks, emitters, position) ==
    emit_jumps_scan(blocks, emitters, position, position + 1, 0)

\* emit_jumps(Program&) without the "i = emit_jumps(program, i)" of line 495:
\* the scan goes on at the block after the Loop, into the loop's body
RECURSIVE emit_jumps_top_no_skip(_, _, _)
emit_jumps_top_no_skip(blocks, emitters, i) ==
    IF i >= Len(blocks) THEN [emitters |-> emitters, ret |-> i, exited |-> FALSE]
    ELSE IF blocks[i + 1] = <<>> THEN emit_jumps_top_no_skip(blocks, emitters, i + 1)
    ELSE IF Head(blocks[i + 1]).type = "Loop" THEN
        LET r == emit_jumps_at(blocks, emitters, i) IN
        IF r.exited THEN r ELSE emit_jumps_top_no_skip(blocks, r.emitters, i + 1)
    ELSE emit_jumps_top_no_skip(blocks, emitters, i + 1)

\* void emit_jumps(Program&) (lines 488-498), from block i
RECURSIVE emit_jumps_top(_, _, _)
emit_jumps_top(blocks, emitters, i) ==
    IF i >= Len(blocks) THEN [emitters |-> emitters, ret |-> i, exited |-> FALSE]
    ELSE IF blocks[i + 1] = <<>> THEN emit_jumps_top(blocks, emitters, i + 1)
    ELSE IF Head(blocks[i + 1]).type = "Loop" THEN
        LET r == emit_jumps_at(blocks, emitters, i) IN
        IF r.exited THEN r ELSE emit_jumps_top(blocks, r.emitters, r.ret + 1)
    ELSE emit_jumps_top(blocks, emitters, i + 1)

emit_jumps(blocks, emitters) == emit_jumps_top(blocks, emitters, 0)

\* lines 467-471: fn_code is the concatenation of all emitters in order
fn_code_of(emitters) == Flatten(emitters)

(***************************************************************************)
(* read_file (lines 604-624) and process_input (lines 626-655).            *)
(***************************************************************************)
\* the lines of the file, each followed by "\n": a text whose last line has
\* no newline gets one, an empty file gives the empty string
read_file(text) ==
    IF text = <<>> THEN <<>>
    ELSE IF text[Len(text)] = "\n" THEN text
    ELSE Append(text, "\n")

is_instruction_byte(c) == c \in Chars

\* the bytes of the input that are one of the eight instructions, in order
process_input(input) == SelectSeq(input, is_instruction_byte)

(***************************************************************************)
(* The inputs of the model.                                                *)
(***************************************************************************)
AllStrings == UNION { [1..n -> Chars] : n \in 0..MaxLen }

\* n '+', for the wrap-around of a cell
PlusRuns == { Rep("+", n) : n \in 0..MaxPlus }

\* k of one operator followed by j of its inverse, alone and between . and ,
RunOf(up, k, down, j) == Rep(up, k) \o Rep(down, j)
RunPrograms ==
    { RunOf("+", k, "-", j) : k \in 0..MaxRun, j \in 0..MaxRun } \cup
    { RunOf(">", k, "<", j) : k \in 0..MaxRun, j \in 0..MaxRun } \cup
    { << "." >> \o RunOf("+", k, "-", j) \o << "," >> : k \in 0..MaxRun, j \in 0..MaxRun } \cup
    { << "." >> \o RunOf(">", k, "<", j) \o << "," >> : k \in 0..MaxRun, j \in 0..MaxRun }

\* loops of several shapes and depths
Scenarios ==
    { << "[", "[", "]", "]" >>,
      << "+", "[", "[", "-", "]", "]" >>,
      << "+", "[", "-", "]", "[", "+", "]", "." >>,
      << "+", "+", "[", ">", "+", "[", "-", "]", "<", "-", "]", "." >>,
      << "+", "+", "[", ">", "+", "+", "+", "[", ">", "+", "<", "-", "]", "<", "-", "]",
         ">", ">", "." >>,
      << "+", "[", "+", "]" >>,
      << "+", "[", "[", "[", "-", "]", "]", "]", "+", "." >>,
      << ",", "[", ".", ",", "]" >>,
      << ",", "[", "[", "-", ".", "]", ",", "]" >>,
      << "+", "[", ">", "+", "]" >>,
      << "[", "[" >>, << "[", "]", "]", "[" >>, << "[", "[", "]" >> \o Rep("+", 2) }

Programs == AllStrings \cup PlusRuns \cup RunPrograms \cup Scenarios

InputsFor(text) ==
    IF \E i \in 1..Len(text) : text[i] = "," THEN [1..MaxIn -> InBytes] ELSE { <<>> }

ZeroTape == [i \in 0..(TapeLen - 1) |-> 0]

RefOff == [ip |-> 0, ptr |-> 0, tape |-> ZeroTape, out |-> <<>>, inpos |-> 0,
           status |-> "off"]

VARIABLES
    pc,          \* where the process is
    argc,        \* main's argc
    fileExists,  \* whether argv[1] can be opened
    fileText,    \* the bytes of the file
    stdin,       \* the bytes waiting on standard input
    code,        \* the sanitized source given to run_program
    stderr,      \* the messages written to std::cerr
    exit_status, \* the exit status of the process, -1 while it runs
    program,     \* Program::blocks
    emitters,    \* JitCompiler::emitters
    fn_code,     \* the concatenated image
    fn_memory,   \* what allocate_function returned
    memcpy_dst,  \* the destination memcpy was called with, 0 before the call
    image,       \* the bytes at fn_memory
    rip, regs, zf, mstatus,   \* the CPU running the image
    tape, out, inpos,         \* vm_buffer, standard output, bytes read so far
    rcx0,        \* RCX when the image (or the single node) was entered
    node,        \* the IR node whose code is run in isolation, if any
    ref,         \* the reference interpreter
    turn,        \* whose step it is
    lag          \* steps taken by one side since the other stopped

vars == << pc, argc, fileExists, fileText, stdin, code, stderr, exit_status, program,
           emitters, fn_code, fn_memory, memcpy_dst, image, rip, regs, zf, mstatus,
           tape, out, inpos, rcx0, node, ref, turn, lag >>

procVars == << argc, fileExists, fileText, stdin >>
compVars == << program, emitters, fn_code, fn_memory, memcpy_dst, image >>
cpuVars  == << rip, regs, zf, mstatus, tape, out, inpos, rcx0 >>

NoInsn == [type |-> "None", value |-> 0]
\* the registers hold whatever the caller left in them
EntryRegs == [r \in RegIds |-> 4660]

Init ==
    /\ pc = "start"
    /\ argc \in {1, 2}
    /\ fileExists \in BOOLEAN
    /\ fileText \in (IF argc = 2 /\ fileExists THEN Programs ELSE { <<>> })
    /\ stdin \in InputsFor(fileText)
    /\ code = <<>>
    /\ stderr = <<>>
    /\ exit_status = -1
    /\ program = <<>>
    /\ emitters = <<>>
    /\ fn_code = <<>>
    /\ fn_memory = 0
    /\ memcpy_dst = 0
    /\ image = <<>>
    /\ rip = 0
    /\ regs = EntryRegs
    /\ zf = FALSE
    /\ mstatus = "off"
    /\ tape = ZeroTape
    /\ out = <<>>
    /\ inpos = 0
    /\ rcx0 = 0
    /\ node = NoInsn
    /\ ref = RefOff
    /\ turn = "jit"
    /\ lag = 0

(***************************************************************************)
(* main (lines 657-668) up to the call of run_program.                     *)
(***************************************************************************)
Main ==
    /\ pc = "start"
    /\ IF argc < 2
       THEN /\ pc' = "exited"
            /\ exit_status' = 1
            /\ UNCHANGED << code, stderr >>
       ELSE /\ code' = process_input(IF fileExists THEN read_file(fileText) ELSE <<>>)
            /\ stderr' = IF fileExists THEN stderr
                         ELSE Append(stderr, "Error: Could not open the file")
            /\ pc' = "input_ready"
            /\ UNCHANGED exit_status
    /\ UNCHANGED << procVars, compVars, cpuVars, node, ref, turn, lag >>

(***************************************************************************)
(* Compiler::compile_program, validate_loops included (lines 352-427).     *)
(***************************************************************************)
CompileProgram ==
    /\ pc = "input_ready"
    /\ LET blocks == build_program(code)
           v == validate_loops(blocks)
       IN  IF v = "ok"
           THEN /\ program' = blocks
                /\ pc' = "parsed"
                /\ UNCHANGED << stderr, exit_status >>
           ELSE /\ stderr' = Append(stderr,
                       IF v = "unmatched_close"
                       THEN "Invalid input program: Unmatched ']'"
                       ELSE "Invalid input program: Unmatched '['")
                /\ exit_status' = 1
                /\ pc' = "exited"
                /\ UNCHANGED program
    /\ UNCHANGED << procVars, code, emitters, fn_code, fn_memory, memcpy_dst, image,
                    cpuVars, node, ref, turn, lag >>

(***************************************************************************)
(* JitCompiler::compile (lines 462-476), one action per statement group.   *)
(***************************************************************************)
\* setup(); generate_emitters(program);
GenerateEmitters ==
    /\ pc = "parsed"
    /\ emitters' = generate_emitters(program, setup(emitters))
    /\ pc' = "emitted"
    /\ UNCHANGED << procVars, code, stderr, exit_status, program, fn_code, fn_memory,
                    memcpy_dst, image, cpuVars, node, ref, turn, lag >>

\* emit_jumps(program);
EmitJumps ==
    /\ pc = "emitted"
    /\ LET r == emit_jumps(program, emitters)
       IN  IF r.exited
           THEN /\ stderr' = Append(stderr, "I don't know what to do here")
                /\ exit_status' = 0
                /\ pc' = "exited"
                /\ UNCHANGED emitters
           ELSE /\ emitters' = r.emitters
                /\ pc' = "jumps_done"
                /\ UNCHANGED << stderr, exit_status >>
    /\ UNCHANGED << procVars, code, program, fn_code, fn_memory, memcpy_dst, image,
                    cpuVars, node, ref, turn, lag >>

\* cleanup(); and the concatenation of lines 467-471
Link ==
    /\ pc = "jumps_done"
    /\ emitters' = cleanup(emitters)
    /\ fn_code' = fn_code_of(emitters')
    /\ pc' = "linked"
    /\ UNCHANGED << procVars, code, stderr, exit_status, program, fn_memory,
                    memcpy_dst, image, cpuVars, node, ref, turn, lag >>

\* allocate_function (lines 525-529): mmap gives a region or MAP_FAILED
Allocate ==
    /\ pc = "linked"
    /\ fn_memory' \in {CodeBase, MAP_FAILED}
    /\ pc' = "allocated"
    /\ UNCHANGED << procVars, code, stderr, exit_status, program, emitters, fn_code,
                    memcpy_dst, image, cpuVars, node, ref, turn, lag >>

\* memcpy(fn_memory, ...); return (FnPointer)fn_memory;  (lines 474-475).
\* There is no test of fn_memory.  Writing through MAP_FAILED is undefined:
\* the process is killed by the fault, or the copy does nothing visible and
\* compile returns the pointer.
Memcpy ==
    /\ pc = "allocated"
    /\ memcpy_dst' = fn_memory
    /\ IF fn_memory = MAP_FAILED
       THEN \/ /\ pc' = "killed"
               /\ exit_status' = 139
               /\ UNCHANGED image
            \/ /\ pc' = "compiled"
               /\ UNCHANGED << image, exit_status >>
       ELSE /\ image' = Append(fn_code, 0)   \* size + 1 bytes were mapped, zero-filled
            /\ pc' = "compiled"
            /\ UNCHANGED exit_status
    /\ UNCHANGED << procVars, code, stderr, program, emitters, fn_code, fn_memory,
                    cpuVars, node, ref, turn, lag >>

(***************************************************************************)
(* Interpreter::run_program (lines 585-595): the tape is allocated and     *)
(* zeroed and fn is called with it (RDI = tape).  Calling MAP_FAILED       *)
(* faults.                                                                 *)
(***************************************************************************)
CallFn ==
    /\ pc = "compiled"
    /\ IF memcpy_dst = MAP_FAILED
       THEN /\ pc' = "killed"
            /\ exit_status' = 139
            /\ UNCHANGED << cpuVars, ref >>
       ELSE /\ pc' = "running"
            /\ rip' = 0
            /\ regs' = [EntryRegs EXCEPT ![RDI] = TapeBase]
            /\ zf' = FALSE
            /\ mstatus' = "running"
            /\ tape' = ZeroTape
            /\ out' = <<>>
            /\ inpos' = 0
            /\ rcx0' = TapeBase
            /\ ref' = [RefOff EXCEPT !.status = "running"]
            /\ UNCHANGED exit_status
    /\ UNCHANGED << procVars, code, stderr, compVars, node, turn, lag >>

(***************************************************************************)
(* The CPU: one instruction of the image at rip (an offset into the        *)
(* image).  The decoder knows the encodings of the Intel manual for the    *)
(* opcodes below; anything else stops the machine as "ill".  A load or     *)
(* store outside the tape stops it as "oob": what happens then is outside  *)
(* the model.  64-bit wrap-around of register arithmetic is outside the    *)
(* values the model reaches.                                               *)
(***************************************************************************)
InTape(a) == a >= TapeBase /\ a < TapeBase + TapeLen

Avail(n) == rip >= 0 /\ rip + n <= Len(image)

B(k) == image[rip + 1 + k]

\* the signed value of four little-endian bytes
Rel32(b0, b1, b2, b3) ==
    b0 + 256 * b1 + 65536 * b2 + 16777216 * (IF b3 >= 128 THEN b3 - 256 ELSE b3)

Ins(op, len, a, b) == [op |-> op, len |-> len, a |-> a, b |-> b]

Decode ==
    IF ~Avail(1) THEN Ins("ill", 0, 0, 0)
    ELSE
    CASE B(0) = 195 -> Ins("ret", 1, 0, 0)
      \* REX.W 89 /r, mod = 11: mov r/m64, r64
      [] B(0) = 72 /\ Avail(3) /\ B(1) = 137 /\ B(2) >= 192 ->
            Ins("mov_rr", 3, B(2) % 8, (B(2) \div 8) % 8)
      \* REX.W B8+rd io: mov r64, imm64 (the upper five bytes must be 0 here)
      [] B(0) = 72 /\ Avail(10) /\ B(1) >= 184 /\ B(1) <= 191
             /\ B(5) < 128 /\ \A k \in 6..9 : B(k) = 0 ->
            Ins("mov_ri", 10, B(1) - 184, Rel32(B(2), B(3), B(4), B(5)))
      \* REX.W 81 /0 id: add r/m64, imm32 (sign-extended)
      [] B(0) = 72 /\ Avail(7) /\ B(1) = 129 /\ B(2) \div 8 = 24 ->
            Ins("add_ri", 7, B(2) % 8, Rel32(B(3), B(4), B(5), B(6)))
      \* REX.W 81 /5 id: sub r/m64, imm32
      [] B(0) = 72 /\ Avail(7) /\ B(1) = 129 /\ B(2) \div 8 = 29 ->
            Ins("sub_ri", 7, B(2) % 8, Rel32(B(3), B(4), B(5), B(6)))
      \* 8A /r, mod = 00: mov r8, [r64]
      [] B(0) = 138 /\ Avail(2) /\ B(1) < 64 -> Ins("load8", 2, B(1) \div 8, B(1) % 8)
      \* 88 /r, mod = 00: mov [r64], r8
      [] B(0) = 136 /\ Avail(2) /\ B(1) < 64 -> Ins("store8", 2, B(1) % 8, B(1) \div 8)
      [] B(0) = 4 /\ Avail(2) -> Ins("add_al", 2, B(1), 0)
      [] B(0) = 44 /\ Avail(2) -> Ins("sub_al", 2, B(1), 0)
      [] B(0) = 60 /\ Avail(2) -> Ins("cmp_al", 2, B(1), 0)
      [] B(0) = 15 /\ Avail(2) /\ B(1) = 5 -> Ins("syscall", 2, 0, 0)
      [] B(0) = 15 /\ Avail(6) /\ B(1) = 132 ->
            Ins("jz", 6, Rel32(B(2), B(3), B(4), B(5)), 0)
      [] B(0) = 15 /\ Avail(6) /\ B(1) = 133 ->
            Ins("jnz", 6, Rel32(B(2), B(3), B(4), B(5)), 0)
      [] OTHER -> Ins("ill", 0, 0, 0)

Low8(v) == v % 256
SetLow8(v, b) == (v \div 256) * 256 + b

Cpu(ip, rg, z, st, tp, o, inp) ==
    [rip |-> ip, regs |-> rg, zf |-> z, mstatus |-> st, tape |-> tp, out |-> o,
     inpos |-> inp]

Stop(st) == Cpu(rip, regs, zf, st, tape, out, inpos)

\* the syscall instruction: RAX selects write (1) or read (0) of one byte
\* at RSI; the kernel returns the count in RAX and leaves `clobber` in RCX
Syscall(clobber) ==
    LET after == [regs EXCEPT ![RCX] = clobber] IN
    IF regs[RAX] = 1 /\ regs[RDI] = 1 /\ regs[RDX] = 1 THEN
        IF ~InTape(regs[RSI]) THEN Stop("oob")
        ELSE IF Len(out) >= MaxOut THEN Stop("outfull")
        ELSE Cpu(rip + 2, [after EXCEPT ![RAX] = 1], zf, "running", tape,
                 Append(out, tape[regs[RSI] - TapeBase]), inpos)
    ELSE IF regs[RAX] = 0 /\ regs[RDI] = 0 /\ regs[RDX] = 1 THEN
        IF ~InTape(regs[RSI]) THEN Stop("oob")
        ELSE IF inpos < Len(stdin)
        THEN Cpu(rip + 2, [after EXCEPT ![RAX] = 1], zf, "running",
                 [tape EXCEPT ![regs[RSI] - TapeBase] = stdin[inpos + 1]], out, inpos + 1)
        \* end of input: read returns 0 and stores nothing
        ELSE Cpu(rip + 2, [after EXCEPT ![RAX] = 0], zf, "running", tape, out, inpos)
    ELSE Stop("ill")

CpuStep(clobber) ==
    LET d == Decode
        next == rip + d.len
    IN
    CASE d.op = "ill" -> Stop("ill")
      [] d.op = "ret" -> Stop("ret")
      [] d.op = "mov_rr" ->
            IF d.a \in RegIds /\ d.b \in RegIds
            THEN Cpu(next, [regs EXCEPT ![d.a] = regs[d.b]], zf, "running", tape, out, inpos)
            ELSE Stop("ill")
      [] d.op = "mov_ri" ->
            IF d.a \in RegIds
            THEN Cpu(next, [regs EXCEPT ![d.a] = d.b], zf, "running", tape, out, inpos)
            ELSE Stop("ill")
      [] d.op = "add_ri" ->
            IF d.a \in RegIds
            THEN Cpu(next, [regs EXCEPT ![d.a] = regs[d.a] + d.b], regs[d.a] + d.b = 0,
                     "running", tape, out, inpos)
            ELSE Stop("ill")
      [] d.op = "sub_ri" ->
            IF d.a \in RegIds
            THEN Cpu(next, [regs EXCEPT ![d.a] = regs[d.a] - d.b], regs[d.a] - d.b = 0,
                     "running", tape, out, inpos)
            ELSE Stop("ill")
      [] d.op = "load8" ->
            IF d.a \notin {RAX, RCX, RDX, RBX} \/ d.b \notin RegIds THEN Stop("ill")
            ELSE IF ~InTape(regs[d.b]) THEN Stop("oob")
            ELSE Cpu(next, [regs EXCEPT ![d.a] = SetLow8(regs[d.a], tape[regs[d.b] - TapeBase])],
                     zf, "running", tape, out, inpos)
      [] d.op = "store8" ->
            IF d.b \notin {RAX, RCX, RDX, RBX} \/ d.a \notin RegIds THEN Stop("ill")
            ELSE IF ~InTape(regs[d.a]) THEN Stop("oob")
            ELSE Cpu(next, regs, zf, "running",
                     [tape EXCEPT ![regs[d.a] - TapeBase] = Low8(regs[d.b])], out, inpos)
      [] d.op = "add_al" ->
            LET r == (Low8(regs[RAX]) + d.a) % 256 IN
            Cpu(next, [regs EXCEPT ![RAX] = SetLow8(regs[RAX], r)], r = 0, "running",
                tape, out, inpos)
      [] d.op = "sub_al" ->
            LET r == (Low8(regs[RAX]) - d.a) % 256 IN
            Cpu(next, [regs EXCEPT ![RAX] = SetLow8(regs[RAX], r)], r = 0, "running",
                tape, out, inpos)
      [] d.op = "cmp_al" ->
            Cpu(next, regs, Low8(regs[RAX]) = d.a, "running", tape, out, inpos)
      \* a rel32 target is the address after the instruction plus the displacement
      [] d.op = "jz" ->
            Cpu(IF zf THEN next + d.a ELSE next, regs, zf, "running", tape, out, inpos)
      [] d.op = "jnz" ->
            Cpu(IF ~zf THEN next + d.a ELSE next, regs, zf, "running", tape, out, inpos)
      [] d.op = "syscall" -> Syscall(clobber)

MDone == mstatus \in {"ret", "oob", "ill", "outfull"}
RDone == ref.status \in {"halt", "oob", "eof", "outfull"}

\* the reference run kept its pointer inside the tape and every read got a byte
RefInScope == ref.status \in {"halt", "outfull"}

\* what the kernel may leave in RCX: the return address, or anything else
Clobbers == {CodeBase + rip + 2, 0}

ExecStep ==
    /\ pc = "running"
    /\ mstatus = "running"
    /\ turn = "jit" \/ ref.status # "running"
    /\ \E clobber \in Clobbers :
         LET n == CpuStep(clobber) IN
         /\ rip' = n.rip
         /\ regs' = n.regs
         /\ zf' = n.zf
         /\ mstatus' = n.mstatus
         /\ tape' = n.tape
         /\ out' = n.out
         /\ inpos' = n.inpos
    /\ turn' = "ref"
    /\ lag' = IF RefInScope /\ lag <= MaxLag THEN lag + 1 ELSE lag
    /\ UNCHANGED << pc, procVars, code, stderr, exit_status, compVars, rcx0, node, ref >>

\* fn returned: run_program returns and main returns 0 (lines 592-594, 667).
\* (delete vm_buffer on memory from new[] is what the C++ runtime of the
\* build turns into free(), as for delete[] of a char array.)
Finish ==
    /\ pc = "running"
    /\ mstatus = "ret"
    /\ pc' = "exited"
    /\ exit_status' = 0
    /\ UNCHANGED << procVars, code, stderr, compVars, cpuVars, node, ref, turn, lag >>

\* the generated code faulted: the process is killed by the signal
Fault ==
    /\ pc = "running"
    /\ mstatus \in {"oob", "ill"}
    /\ pc' = "killed"
    /\ exit_status' = 139
    /\ UNCHANGED << procVars, code, stderr, compVars, cpuVars, node, ref, turn, lag >>

(***************************************************************************)
(* The reference interpreter: the textbook semantics of the eight          *)
(* instructions on the sanitized source, one instruction per step, on a    *)
(* tape of its own.  It is not code of the repository; it is what the      *)
(* generated code is compared with.                                        *)
(***************************************************************************)
\* the position of the ']' matching the '[' at position i (0-based)
RECURSIVE MatchClose(_, _, _)
MatchClose(text, i, depth) ==
    IF i >= Len(text) THEN Len(text)
    ELSE IF text[i + 1] = "[" THEN MatchClose(text, i + 1, depth + 1)
    ELSE IF text[i + 1] = "]" THEN
        (IF depth = 1 THEN i ELSE MatchClose(text, i + 1, depth - 1))
    ELSE MatchClose(text, i + 1, depth)

\* the position of the '[' matching the ']' at position i
RECURSIVE MatchOpen(_, _, _)
MatchOpen(text, i, depth) ==
    IF i < 0 THEN -1
    ELSE IF text[i + 1] = "]" THEN MatchOpen(text, i - 1, depth + 1)
    ELSE IF text[i + 1] = "[" THEN
        (IF depth = 1 THEN i ELSE MatchOpen(text, i - 1, depth - 1))
    ELSE MatchOpen(text, i - 1, depth)

RefNext ==
    IF ref.ip >= Len(code) THEN [ref EXCEPT !.status = "halt"]
    ELSE
    LET c == code[ref.ip + 1]
        cell == ref.tape[ref.ptr]
        step == [ref EXCEPT !.ip = ref.ip + 1]
    IN
    CASE c = "+" -> [step EXCEPT !.tape[ref.ptr] = (cell + 1) % 256]
      [] c = "-" -> [step EXCEPT !.tape[ref.ptr] = (cell - 1) % 256]
      [] c = ">" -> IF ref.ptr + 1 >= TapeLen THEN [ref EXCEPT !.status = "oob"]
                    ELSE [step EXCEPT !.ptr = ref.ptr + 1]
      [] c = "<" -> IF ref.ptr = 0 THEN [ref EXCEPT !.status = "oob"]
                    ELSE [step EXCEPT !.ptr = ref.ptr - 1]
      [] c = "." -> IF Len(ref.out) >= MaxOut THEN [ref EXCEPT !.status = "outfull"]
                    ELSE [step EXCEPT !.out = Append(ref.out, cell)]
      [] c = "," -> IF ref.inpos >= Len(stdin) THEN [ref EXCEPT !.status = "eof"]
                    ELSE [step EXCEPT !.tape[ref.ptr] = stdin[ref.inpos + 1],
                                      !.inpos = ref.inpos + 1]
      [] c = "[" -> IF cell = 0 THEN [ref EXCEPT !.ip = MatchClose(code, ref.ip, 0) + 1]
                    ELSE step
      [] c = "]" -> IF cell # 0 THEN [ref EXCEPT !.ip = MatchOpen(code, ref.ip, 0) + 1]
                    ELSE step

RefStep ==
    /\ ref.status = "running"
    /\ turn = "ref" \/ mstatus # "running"
    /\ ref' = RefNext
    /\ turn' = "jit"
    /\ lag' = IF mstatus \in {"ret", "outfull"} /\ lag <= MaxLag THEN lag + 1 ELSE lag
    /\ UNCHANGED << pc, procVars, code, stderr, exit_status, compVars, cpuVars, node >>

Next ==
    \/ Main
    \/ CompileProgram
    \/ GenerateEmitters
    \/ EmitJumps
    \/ Link
    \/ Allocate
    \/ Memcpy
    \/ CallFn
    \/ ExecStep
    \/ Finish
    \/ Fault
    \/ RefStep

Spec == Init /\ [][Next]_vars

\* the CPU keeps executing the image; the interpreter keeps interpreting
FairSpec == Spec /\ WF_vars(ExecStep) /\ WF_vars(RefStep)

(***************************************************************************)
(* The code of one IR node run alone, from an arbitrary machine state:     *)
(* the image is what process_instruction emits for the node into an empty  *)
(* emitter, and the CPU runs it until rip leaves it.                       *)
(***************************************************************************)
Counts == (1..MaxCount) \cup {255}

Nodes ==
    { AddInsn(n) : n \in Counts } \cup { SubInsn(n) : n \in Counts } \cup
    { RightInsn(n) : n \in Counts } \cup { LeftInsn(n) : n \in Counts } \cup
    { WriteInsn, ReadInsn }

NodeInit ==
    /\ pc = "running"
    /\ argc = 2
    /\ fileExists = TRUE
    /\ fileText = <<>>
    /\ stdin \in UNION { [1..n -> InBytes] : n \in 0..1 }
    /\ code = <<>>
    /\ stderr = <<>>
    /\ exit_status = -1
    /\ program = <<>>
    /\ emitters = <<>>
    /\ fn_code = <<>>
    /\ fn_memory = CodeBase
    /\ memcpy_dst = CodeBase
    /\ node \in Nodes
    /\ image = process_instruction(node, <<>>)
    /\ rip = 0
    /\ \E rcx \in (TapeBase - 1)..(TapeBase + TapeLen), rax, rbx \in {0, 4660} :
          regs = [EntryRegs EXCEPT ![RCX] = rcx, ![RAX] = rax, ![RBX] = rbx]
    /\ rcx0 = regs[RCX]
    /\ zf \in BOOLEAN
    /\ mstatus = "running"
    /\ tape \in { ZeroTape, [i \in 0..(TapeLen - 1) |-> 255] }
    /\ out = <<>>
    /\ inpos = 0
    /\ ref = RefOff
    /\ turn = "jit"
    /\ lag = 0

NodeSpec == NodeInit /\ [][ExecStep]_vars

(***************************************************************************)
(* Properties.                                                             *)
(***************************************************************************)
IsPrefix(s, t) == Len(s) <= Len(t) /\ \A i \in 1..Len(s) : s[i] = t[i]

\* the generated code and the reference interpreter agree on what they have
\* written so far, and once both have stopped they stopped the same way with
\* the same output
SameOutput ==
    /\ (mstatus # "off" /\ node = NoInsn /\ ref.status \in {"running", "halt", "outfull"})
          => (IsPrefix(out, ref.out) \/ IsPrefix(ref.out, out))
    /\ (node = NoInsn /\ MDone /\ RefInScope)
          => /\ out = ref.out
             /\ mstatus = "ret" <=> ref.status = "halt"
             /\ mstatus = "outfull" <=> ref.status = "outfull"

\* C1: for every balanced program and every input for which the data pointer
\* stays inside the tape and every read returns a byte, the image built by
\* JitCompiler::compile, run on a zeroed tape, writes the output the
\* reference interpreter writes and terminates exactly when it does: once
\* one of the two has stopped the other stops within MaxLag steps.
C1_JitEquivalentToInterpreter == SameOutput /\ lag <= MaxLag

\* the same, with termination as a temporal property under FairSpec
TerminatesTogether ==
    /\ []SameOutput
    /\ (RefInScope ~> MDone)
    /\ ((mstatus \in {"ret", "outfull"}) ~> RDone)

\* the nested counter "++[>+++[>+<-]<-]>>." has run to its end in both and
\* has written the byte 6
C1_Witness ==
    /\ mstatus = "ret"
    /\ ref.status = "halt"
    /\ Len(code) = 19
    /\ out = << 6 >>
    /\ ref.out = << 6 >>

(***************************************************************************)
(* Brackets of a text, counted on the text itself.                         *)
(***************************************************************************)
CountIn(text, n, c) == Cardinality({p \in 1..n : text[p] = c})
Depth(text, n) == CountIn(text, n, "[") - CountIn(text, n, "]")
Balanced(text) ==
    \/ \A p \in 1..Len(text) : text[p] \notin {"[", "]"}
    \/ /\ \A n \in 0..Len(text) : Depth(text, n) >= 0
       /\ Depth(text, Len(text)) = 0

Contains(seq, x) == \E i \in 1..Len(seq) : seq[i] = x

\* run_program was called with the sanitized source
Compiling == argc >= 2 /\ pc \notin {"start", "input_ready"} /\ node = NoInsn

\* C2: a sanitized input whose brackets do not balance ends compile_program
\* in the parse error with exit status 1, and no machine code is generated
\* or run; one whose brackets balance gets a Program, and
\* JitCompiler::compile takes no exit path.
C2_BracketBalanceDecidesCompilation ==
    /\ (Compiling /\ ~Balanced(code)) =>
          /\ pc = "exited"
          /\ exit_status = 1
          /\ \/ Contains(stderr, "Invalid input program: Unmatched ']'")
             \/ Contains(stderr, "Invalid input program: Unmatched '['")
          /\ program = <<>> /\ emitters = <<>> /\ fn_code = <<>> /\ image = <<>>
          /\ mstatus = "off"
    /\ (Compiling /\ Balanced(code)) =>
          /\ program # <<>>
          /\ pc = "parsed" => program = build_program(code)
          /\ ~Contains(stderr, "Invalid input program: Unmatched ']'")
          /\ ~Contains(stderr, "Invalid input program: Unmatched '['")
          /\ ~Contains(stderr, "I don't know what to do here")
          /\ pc \in {"parsed", "emitted"} \/ Len(emitters) >= Len(program) + 1

\* "[[]++" (an unmatched '[') was rejected with exit status 1
C2_Witness ==
    /\ pc = "exited"
    /\ exit_status = 1
    /\ code = << "[", "[", "]", "+", "+" >>
    /\ emitters = <<>>

Folded(up, down, k, j) ==
    IF k > j THEN << [type |-> up, value |-> k - j] >>
    ELSE IF j > k THEN << [type |-> down, value |-> j - k] >>
    ELSE <<>>

\* C3: a run of k '+' followed by j '-' (k + j >= 1), alone or between two
\* other instructions, makes compile_program append exactly Add(k - j) when
\* k > j, exactly Sub(j - k) when j > k and nothing when k = j; the same
\* for k '>' followed by j '<' with Right and Left.
C3_FoldingCorrectness ==
    pc = "parsed" =>
      \A k, j \in 0..MaxRun :
        k + j >= 1 =>
          /\ code = RunOf("+", k, "-", j) => program = << Folded("Add", "Sub", k, j) >>
          /\ code = RunOf(">", k, "<", j) => program = << Folded("Right", "Left", k, j) >>
          /\ code = << "." >> \o RunOf("+", k, "-", j) \o << "," >> =>
                program = << << WriteInsn >> \o Folded("Add", "Sub", k, j) \o << ReadInsn >> >>
          /\ code = << "." >> \o RunOf(">", k, "<", j) \o << "," >> =>
                program = << << WriteInsn >> \o Folded("Right", "Left", k, j) \o << ReadInsn >> >>

\* ".+---," was compiled to Write, Sub(2), Read
C3_Witness ==
    /\ pc = "parsed"
    /\ code = << ".", "+", "-", "-", "-", "," >>
    /\ program = << << WriteInsn, SubInsn(2), ReadInsn >> >>

\* C4: cells are unsigned 8-bit values with wrap-around through folding,
\* the narrowing of the count to the 8-bit immediate and the AL arithmetic:
\* the compiled program of n '+' leaves the zero cell at n mod 256 (0 for
\* n = 256), the compiled program "-" leaves it at 255.
C4_TapeModularity ==
    (node = NoInsn /\ mstatus = "ret") =>
        /\ code = Rep("+", Len(code)) => tape[0] = Len(code) % 256
        /\ code = << "-" >> => tape[0] = 255

\* 256 '+' were compiled to Add(256), run, and the cell is 0
C4_Witness ==
    /\ mstatus = "ret"
    /\ code = Rep("+", 256)
    /\ program = << << AddInsn(256) >> >>
    /\ tape[0] = 0

(***************************************************************************)
(* Matched pairs of Loop / EndLoop blocks, by depth over the block         *)
(* sequence; block and emitter indices are those of the source (0-based).  *)
(***************************************************************************)
IsLoopBlock(i) == program[i + 1] = << LoopInsn >>
IsEndLoopBlock(i) == program[i + 1] = << EndLoopInsn >>

BlockDepth(i, j) ==
    Cardinality({k \in i..j : IsLoopBlock(k)}) - Cardinality({k \in i..j : IsEndLoopBlock(k)})

\* j holds the EndLoop that closes the Loop of block i
Matched(i, j) ==
    /\ IsLoopBlock(i) /\ IsEndLoopBlock(j) /\ i < j
    /\ BlockDepth(i, j) = 0
    /\ \A m \in i..(j - 1) : BlockDepth(i, m) > 0

Pairs == { p \in (0..(Len(program) - 1)) \X (0..(Len(program) - 1)) : Matched(p[1], p[2]) }

\* emit_jumps has returned
JumpsEmitted == node = NoInsn /\ pc = "jumps_done"

\* the rel32 of the jump that ends the buffer of block i
Disp(i) ==
    LET e == emitters[i + 2] IN Rel32(e[Len(e) - 3], e[Len(e) - 2], e[Len(e) - 1], e[Len(e)])

\* bytes of the buffers of the blocks strictly between i and j
BodySize(i, j) == SumLen(SubSeq(emitters, i + 3, j + 1))

\* offset in the image of the first byte of the buffer of block i
StartOf(i) == SumLen(SubSeq(emitters, 1, i + 1))

Abs(x) == IF x < 0 THEN -x ELSE x

\* C5: for every matched pair, the displacement F of the jz at '[' plus the
\* size of the code between the markers plus the size of the ']' jump
\* sequence equals the absolute value of the displacement B of the jnz.
C5_DisplacementClosure ==
    JumpsEmitted =>
      \A p \in Pairs :
        Disp(p[1]) + BodySize(p[1], p[2]) + Len(emitters[p[2] + 2]) = Abs(Disp(p[2]))

\* what emit_jumps writes: F is the size of the code between the markers and
\* B = -(F + 16), the 10 bytes of the '[' sequence, the 4 bytes emitted
\* before the jnz and 2
WrittenDisplacements ==
    JumpsEmitted =>
      \A p \in Pairs :
        /\ Disp(p[1]) = BodySize(p[1], p[2])
        /\ Disp(p[2]) = -(BodySize(p[1], p[2]) + 16)

\* C7: when the file cannot be opened the process writes an error message
\* and ends with a non-zero exit status; exit status 0 is produced only when
\* the file was opened and the program compiled and ran.
C7_OpenFailureExitsNonZero ==
    /\ (argc >= 2 /\ ~fileExists /\ pc \in {"exited", "killed"}) =>
          /\ Contains(stderr, "Error: Could not open the file")
          /\ exit_status # 0
    /\ (node = NoInsn /\ exit_status = 0) => (fileExists /\ mstatus = "ret")

\* the size of the code of one instruction when Write and Read take io bytes
SizeOf(insn, io) ==
    CASE insn.type \in {"Add", "Sub"} -> 6
      [] insn.type \in {"Right", "Left"} -> 7
      [] insn.type \in {"Write", "Read"} -> io
      [] OTHER -> 0

RECURSIVE SumSizes(_, _)
SumSizes(insns, io) ==
    IF insns = <<>> THEN 0 ELSE SizeOf(Head(insns), io) + SumSizes(Tail(insns), io)

\* C8 as stated: after generate_emitters the buffer of every block is as long
\* as the sum of Add 6, Sub 6, Right 7, Left 7, Write 39, Read 39 (Loop and
\* EndLoop 0) over its instructions.
C8_BufferSizesOfTable ==
    (node = NoInsn /\ pc = "emitted") =>
        \A b \in 1..Len(program) : Len(emitters[b + 1]) = SumSizes(program[b], 39)

\* C8, amended: after generate_emitters the buffer of every block is as long
\* as the sum of Add 6, Sub 6, Right 7, Left 7, Write 41, Read 41 (Loop and
\* EndLoop 0) over its instructions.
C8_BufferSizesEmitted ==
    (node = NoInsn /\ pc = "emitted") =>
        \A b \in 1..Len(program) : Len(emitters[b + 1]) = SumSizes(program[b], 41)

\* "+.," : one block of Add, Write, Read was emitted as 6 + 41 + 41 bytes
C8_Witness ==
    /\ pc = "emitted"
    /\ program = << << AddInsn(1), WriteInsn, ReadInsn >> >>
    /\ Len(emitters[2]) = 88

\* C9: in the image, the taken jz of every '[' lands on the byte after the
\* last byte of the matching ']' sequence, and the taken jnz of every ']'
\* lands on the first byte after the matching '[' sequence; a rel32 target
\* is the address after the displacement field plus the displacement.
C9_JumpTargets ==
    JumpsEmitted =>
      \A p \in Pairs :
        /\ StartOf(p[1]) + Len(emitters[p[1] + 2]) + Disp(p[1])
              = StartOf(p[2]) + Len(emitters[p[2] + 2])
        /\ StartOf(p[2]) + Len(emitters[p[2] + 2]) + Disp(p[2])
              = StartOf(p[1]) + Len(emitters[p[1] + 2])

\* where the jumps of the image land: the jz on the first byte of the
\* matching ']' sequence, the jnz on the jz of the matching '[' sequence
WrittenJumpTargets ==
    JumpsEmitted =>
      \A p \in Pairs :
        /\ StartOf(p[1]) + Len(emitters[p[1] + 2]) + Disp(p[1]) = StartOf(p[2])
        /\ StartOf(p[2]) + Len(emitters[p[2] + 2]) + Disp(p[2]) = StartOf(p[1]) + 4

\* C10: when mmap returns MAP_FAILED, JitCompiler::compile aborts: it does
\* not copy the image to that address and does not return it as a function.
C10_MmapFailureIsFatal ==
    (node = NoInsn /\ fn_memory = MAP_FAILED) =>
        /\ memcpy_dst # MAP_FAILED
        /\ pc # "compiled"

\* C6: the code of a single IR node, run from any machine state to its end,
\* leaves RCX as it was on entry, except that Right(n) leaves entry + n and
\* Left(n) leaves entry - n; Write and Read too, although the syscall
\* instruction leaves something else in RCX.
C6_RcxPreserved ==
    (node # NoInsn /\ mstatus = "running" /\ rip = Len(image)) =>
        regs[RCX] = rcx0 + (CASE node.type = "Right" -> node.value
                              [] node.type = "Left" -> -node.value
                              [] OTHER -> 0)

\* the code of Read ran to its end after the syscall stored a byte
C6_Witness ==
    /\ node = ReadInsn
    /\ mstatus = "running"
    /\ rip = Len(image)
    /\ inpos = 1
    /\ regs[RCX] = rcx0


(***************************************************************************)
(* The marker blocks: a block whose first instruction is Loop or EndLoop,  *)
(* which is what emit_jumps tests (lines 505-512).                         *)
(***************************************************************************)
IsMarkerBlock(b) ==
    /\ program[b + 1] # <<>>
    /\ Head(program[b + 1]).type \in {"Loop", "EndLoop"}

MarkerBlocks == { b \in 0..(Len(program) - 1) : IsMarkerBlock(b) }

\* the bytes generate_emitters wrote for the blocks from .. to, by the sizes
\* of their instructions (markers 0)
RECURSIVE EmittedSizeOfBlocks(_, _)
EmittedSizeOfBlocks(from, to) ==
    IF from > to THEN 0
    ELSE SumSizes(program[from + 1], 41) + EmittedSizeOfBlocks(from + 1, to)

\* the marker blocks strictly between blocks i and j
MarkersBetween(i, j) == { b \in MarkerBlocks : i < b /\ b < j }

\* C11: for every balanced program and nesting shape, the buffer of every
\* Loop and EndLoop marker block is empty after generate_emitters and, after
\* emit_jumps, is exactly one 10-byte jump sequence (mov AL,[RCX]; cmp AL,0;
\* jz / jnz rel32): written once, never zero times or twice.  Every marker
\* belongs to exactly one matched pair, and the displacement of the pair's
\* jz counts each marker block nested inside the pair at its final 10 bytes,
\* so the inner pairs were resolved before the enclosing one measured them.
C11_MarkerBlocksWrittenOnce ==
    /\ (node = NoInsn /\ pc = "emitted") =>
          \A b \in MarkerBlocks : emitters[b + 2] = <<>>
    /\ JumpsEmitted =>
          /\ \A b \in MarkerBlocks :
                /\ Len(emitters[b + 2]) = 10
                /\ Cardinality({ p \in Pairs : p[1] = b \/ p[2] = b }) = 1
                /\ emitters[b + 2] =
                      IF Head(program[b + 1]).type = "Loop"
                      THEN mov_deref(AL, RCX) \o cmp_al(Imm8(0)) \o jz(Imm32(Disp(b)))
                      ELSE mov_deref(AL, RCX) \o cmp_al(Imm8(0)) \o jnz(Imm32(Disp(b)))
          /\ \A p \in Pairs :
                Disp(p[1]) = EmittedSizeOfBlocks(p[1] + 1, p[2] - 1)
                               + 10 * Cardinality(MarkersBetween(p[1], p[2]))

\* emit_jumps has returned for a program with three loops nested in one
\* another and code around them: all six marker buffers hold 10 bytes and
\* the outermost pair encloses four resolved markers
C11_Witness ==
    /\ JumpsEmitted
    /\ Cardinality(MarkerBlocks) = 6
    /\ \E p \in Pairs :
          /\ Cardinality(MarkersBetween(p[1], p[2])) = 4
          /\ Disp(p[1]) = 46
    /\ \A b \in MarkerBlocks : Len(emitters[b + 2]) = 10

====
